---- MODULE Spec2Model ----
(***************************************************************************)
(* Model of pyglasma3d_v0.4.5-benchmark/mv_test_setup.py: the command-line *)
(* parsing (argparse with the check_steps type), the write-back of the two *)
(* environment variables, the backend import and CUDA library probe, the   *)
(* derivation of the lattice and initial-condition parameters, and the     *)
(* mock simulation loop.                                                   *)
(*                                                                         *)
(* Numbers.  Box sizes are integers in fm, regulators integers in MeV, the *)
(* collision energy an integer number of 1/1000 MeV.  Quantities the       *)
(* script computes with + - * / only are exact fractions [n, d]; the roots *)
(* of line 209 are fixed-point (three decimals, rounded down); the         *)
(* quantities behind the logarithm of line 210 keep their IEEE class only  *)
(* (positive, negative, zero, infinite, nan).                              *)
(***************************************************************************)
EXTENDS Integers, Sequences, FiniteSets, TLC

\* ------------------------------------------------------------------ bounds

\* longest raw string handed to check_steps in SpecSteps
MaxLen == 3
\* largest numeral given to -s/--steps in Spec
MaxSteps == 5

\* --------------------------------------------------------------- constants

\* line 224
max_iters == 20
\* line 91: default of --steps
DefaultSteps == 4
\* line 112: default of --fastmath when FASTMATH is unset
DefaultFastmath == 1
\* line 210: the scale 217.0 [MeV] inside the logarithm
LambdaQCD == 217

None == "None"

\* ----------------------------------------------------------------- strings

Digits == <<"0", "1", "2", "3", "4", "5", "6", "7", "8", "9">>

DigitSet == {Digits[i] : i \in 1..10}

DigitVal(c) == (CHOOSE i \in 1..10 : Digits[i] = c) - 1

\* the characters raw strings are built from
Alphabet == {"-", "+", "_", " ", "0", "1", "2", "3", "4", "5", "6", "a"}

Strings(n) == UNION {[1..k -> Alphabet] : k \in 0..n}

RECURSIVE LStrip(_)
LStrip(s) == IF s # <<>> /\ Head(s) = " " THEN LStrip(Tail(s)) ELSE s

RECURSIVE RStrip(_)
RStrip(s) ==
    IF s # <<>> /\ s[Len(s)] = " " THEN RStrip(SubSeq(s, 1, Len(s) - 1)) ELSE s

\* the digit groups int() accepts: digits, single underscores only between them
WellFormedDigits(s) ==
    /\ s # <<>>
    /\ \A i \in 1..Len(s) : s[i] \in DigitSet \cup {"_"}
    /\ s[1] # "_"
    /\ s[Len(s)] # "_"
    /\ \A i \in 1..(Len(s) - 1) : ~(s[i] = "_" /\ s[i + 1] = "_")

RECURSIVE DigitsValue(_, _)
DigitsValue(s, acc) ==
    IF s = <<>> THEN acc
    ELSE IF Head(s) = "_" THEN DigitsValue(Tail(s), acc)
    ELSE DigitsValue(Tail(s), 10 * acc + DigitVal(Head(s)))

\* Python's int(str): surrounding blanks stripped, an optional sign, decimal
\* digits.  ok = FALSE stands for ValueError.
PyInt(s) ==
    LET b == RStrip(LStrip(s))
        signed == b # <<>> /\ b[1] \in {"+", "-"}
        body == IF signed THEN Tail(b) ELSE b
    IN  IF WellFormedDigits(body)
        THEN [ok |-> TRUE,
              val |-> IF signed /\ b[1] = "-" THEN 0 - DigitsValue(body, 0)
                      ELSE DigitsValue(body, 0)]
        ELSE [ok |-> FALSE, val |-> 0]

RECURSIVE NatStr(_)
NatStr(n) == IF n < 10 THEN <<Digits[n + 1]>> ELSE NatStr(n \div 10) \o <<Digits[(n % 10) + 1]>>

\* Python's str(int)
PyStr(n) == IF n < 0 THEN <<"-">> \o NatStr(0 - n) ELSE NatStr(n)

\* ------------------------------------------------------------- check_steps

Returned(v) == [kind |-> "return", value |-> v, exc |-> "", msg |-> ""]

Raised(e, m) == [kind |-> "raise", value |-> 0, exc |-> e, msg |-> m]

NoResult == [kind |-> "none", value |-> 0, exc |-> "", msg |-> ""]

\* check_steps without the test arg >= 2 of line 22
C2_check_steps_no_lower_bound(raw) ==
    LET p == PyInt(raw)
    IN  IF ~p.ok THEN Raised("ArgumentTypeError", "invalid check_steps value")
        ELSE IF p.val % 2 = 0 THEN Returned(p.val)
        ELSE Raised("ArgumentTypeError", "not a multiple of 2")

\* lines 18-28
check_steps(raw) ==
    LET p == PyInt(raw)
    IN  IF ~p.ok THEN Raised("ArgumentTypeError", "invalid check_steps value")
        ELSE IF p.val % 2 = 0 /\ p.val >= 2 THEN Returned(p.val)
        ELSE Raised("ArgumentTypeError", "not a multiple of 2")

\* --------------------------------------------------------------- fractions

Abs(x) == IF x < 0 THEN 0 - x ELSE x

RECURSIVE GCD(_, _)
GCD(x, y) == IF y = 0 THEN x ELSE GCD(y, x % y)

\* the fraction n/d (d # 0) in lowest terms with a positive denominator
Frac(n, d) ==
    LET k == GCD(Abs(n), Abs(d))
        s == IF d < 0 THEN 0 - 1 ELSE 1
    IN  [n |-> s * (n \div k), d |-> s * (d \div k)]

\* x * y, cancelling across before multiplying
FMul(x, y) ==
    LET k1 == GCD(Abs(x.n), y.d)
        k2 == GCD(Abs(y.n), x.d)
    IN  Frac((x.n \div k1) * (y.n \div k2), (x.d \div k2) * (y.d \div k1))

\* x / y for y # 0 (Python raises ZeroDivisionError for y = 0)
FDiv(x, y) == FMul(x, Frac(y.d, y.n))

FInt(k) == [n |-> k, d |-> 1]

\* --------------------------------------------------------- fixed-point roots

RECURSIVE SqrtIter(_, _, _)
SqrtIter(n, lo, hi) ==
    IF lo >= hi THEN lo
    ELSE LET mid == (lo + hi + 1) \div 2
         IN  IF mid * mid <= n THEN SqrtIter(n, mid, hi) ELSE SqrtIter(n, lo, mid - 1)

\* the integer part of the square root of n, 0 <= n < 2^31
ISqrt(n) == SqrtIter(n, 0, 46340)

\* square root of v/1000, in thousandths (np.sqrt on a three-decimal value)
SqrtMilli(v) == ISqrt(v * 1000)

\* (x/1000000) ** 0.25 in thousandths: the fourth root as two square roots
Pow025(x) == SqrtMilli(ISqrt(x))

\* ------------------------------------------------------ parameter derivation
\* p is the parsed argument record: nx, nt (int), LL, LT [fm], sqrts
\* [1/1000 MeV], m, uv [MeV], steps, device, fastmath.

\* line 195: hbarc = 197.3270 [MeV*fm]
hbarc == Frac(197327, 1000)

\* line 196: RAu = 7.27331 [fm]
RAu == Frac(727331, 100000)

\* line 199
aT_fm(p) == Frac(p.LT, p.nt)

\* line 200
E0(p) == FDiv(hbarc, aT_fm(p))

\* line 201
aT == FInt(1)

\* line 202
aL_fm(p) == Frac(p.LL, p.nx)

\* line 203 with the quotient the wrong way round
C8_aL_inverted(p) == FDiv(aT_fm(p), aL_fm(p))

\* line 203
aL(p) == FDiv(aL_fm(p), aT_fm(p))

\* line 204
a(p) == <<aL(p), aT, aT>>

\* line 205
dt(p) == FDiv(aL(p), FInt(p.steps))

\* line 208: sqrts / 2000.0, sqrts held in 1/1000 MeV
gamma(p) == Frac(p.sqrts, 2000000)

\* line 209 without the np.sqrt around the fourth root
C9_Qs_fourth_root(p) == Pow025(p.sqrts)

\* line 209: np.sqrt((sqrts / 1000.0) ** 0.25) * 1000.0, in whole MeV
Qs(p) == SqrtMilli(Pow025(p.sqrts))

\* np.log(Qs / 217.0): its IEEE class
LogClass(q) ==
    IF q = 0 THEN "-inf"
    ELSE IF q < LambdaQCD THEN "neg"
    ELSE IF q = LambdaQCD THEN "zero"
    ELSE "pos"

\* line 210: 12.5664 / (18.0 * np.log(Qs / 217.0)) on numpy floats: a zero
\* divisor gives inf with a RuntimeWarning, no exception
alphas(p) ==
    LET l == LogClass(Qs(p))
    IN  IF l = "pos" THEN "pos"
        ELSE IF l = "neg" THEN "neg"
        ELSE IF l = "zero" THEN "inf"
        ELSE "-0"

\* line 211: np.sqrt(12.5664 * alphas): nan (RuntimeWarning) below zero
g(p) ==
    LET al == alphas(p)
    IN  IF al = "neg" THEN "nan" ELSE al

\* line 212: Qs / (g * g * 0.75) / E0
mu(p) ==
    LET gc == g(p)
    IN  IF gc = "nan" THEN "nan"
        ELSE IF gc = "inf" THEN "zero"
        ELSE IF gc = "-0" THEN "nan"
        ELSE IF E0(p).n > 0 THEN "pos" ELSE "neg"

\* line 213
uvt(p) == FDiv(FInt(p.uv), E0(p))

\* line 214
ir(p) == FDiv(FInt(p.m), E0(p))

\* line 215
sigma(p) == FMul(FDiv(FDiv(RAu, FMul(FInt(2), gamma(p))), aL_fm(p)), aL(p))

\* line 216
sigma_c(p) == FDiv(sigma(p), aL(p))

\* line 231 with the two loop variables exchanged
C1_index_swapped(steps, i, s) == steps * s + i

\* line 231
global_step_index(steps, i, s) == steps * i + s

\* -------------------------------------------------------------------- state

VARIABLES
    pc,        \* the statement the script is at
    environ,   \* os.environ: MY_NUMBA_TARGET and FASTMATH
    writes,    \* how often each of the two variables was assigned
    args,      \* the namespace parse_args returned
    error,     \* the exception that ended the script
    loaded,    \* the backend modules imported so far, in order
    opened,    \* the cuda libraries open_cudalib was called with, in order
    lattice,   \* aT_fm .. dt once lines 199-205 ran (else <<>>)
    ic,        \* gamma .. sigma_c once lines 208-216 ran (else <<>>)
    it,        \* the outer loop variable
    step,      \* the inner loop variable
    t,         \* the start time of line 225 / 230
    now,       \* the clock: the number of time.time() calls made so far
    out,       \* the lines the loop printed, in order
    advances,  \* calls made into the Simulation engine
    arg,       \* SpecSteps: the raw string passed to check_steps
    ret        \* SpecSteps: what check_steps returned or raised

vars == <<pc, environ, writes, args, error, loaded, opened, lattice, ic, it,
          step, t, now, out, advances, arg, ret>>

\* ------------------------------------------------------------------- inputs

\* an option or variable that may be missing
Absent == [given |-> FALSE, raw |-> <<>>]

Opt(raw) == [given |-> TRUE, raw |-> raw]

\* line 104
Choices == {"cuda", "numba", "cython"}

\* line 114
FastmathChoices == {0, 1}

\* line 151
cuda_libs == <<"cublas", "cusparse", "cufft", "curand", "nvvm">>

\* lines 137-140
CyModules ==
    <<"pyglasma3d.cy.mv", "pyglasma3d.cy.interpolate", "pyglasma3d.cy.gauss",
      "pyglasma3d.core">>

\* lines 143-149
NumbaModules ==
    <<"pyglasma3d_numba_source.interpolate", "pyglasma3d_numba_source.gauss",
      "pyglasma3d_numba_source.mv", "pyglasma3d_numba_source.core",
      "numba.cuda.cudadrv.libs">>

\* what the command line and the environment are drawn from
StepsArgv == {Absent, Opt(<<"a">>)} \cup {Opt(PyStr(n)) : n \in 1..MaxSteps}

DeviceArgv == {None, "cuda", "numba", "cython", "opencl"}

FastmathArgv == {Absent, Opt(<<"0">>), Opt(<<"1">>), Opt(<<"2">>)}

EnvTargets == {None, "numba", "opencl"}

EnvFastmath == {Absent, Opt(<<"0">>), Opt(<<"2">>), Opt(<<"a">>)}

NxValues == {0, 64, 128}

NtValues == {0, 256}

LLValues == {0 - 6, 0, 6, 12}

LTValues == {0, 6}

\* collision energies in 1/1000 MeV: 0, 0.001 MeV, 1 GeV, 200 GeV, 256 GeV
SqrtsValues == {0, 1, 1000000, 200000000, 256000000}

\* <<m, uv>> in MeV
Regulators == {<<200, 10000>>, <<200, 100>>}

NoArgs ==
    [nx |-> 0, nt |-> 0, LL |-> 0, LT |-> 0, sqrts |-> 0, m |-> 0, uv |-> 0,
     steps |-> 0, device |-> None, fastmath |-> 0]

NoError == [exc |-> "", at |-> ""]

\* ------------------------------------------------------------------ actions

Init ==
    /\ pc = "parse"
    /\ environ \in [MY_NUMBA_TARGET : EnvTargets, FASTMATH : EnvFastmath]
    /\ writes = [MY_NUMBA_TARGET |-> 0, FASTMATH |-> 0]
    /\ args = NoArgs
    /\ error = NoError
    /\ loaded = <<>>
    /\ opened = <<>>
    /\ lattice = <<>>
    /\ ic = <<>>
    /\ it = 0
    /\ step = 0
    /\ t = 0
    /\ now = 0
    /\ out = <<>>
    /\ advances = 0
    /\ arg = <<>>
    /\ ret = NoResult

\* line 102: the default of --device, read from the environment
DeviceDefault(env) ==
    IF env.MY_NUMBA_TARGET # None THEN env.MY_NUMBA_TARGET ELSE "cuda"

\* lines 98-108 under parse_args: a value given with -d/--device is checked
\* against choices; a default is converted with type=str and stored unchecked
ResolveDevice(dArg, env) ==
    IF dArg # None THEN [ok |-> dArg \in Choices, val |-> dArg]
    ELSE [ok |-> TRUE, val |-> DeviceDefault(env)]

\* lines 109-117 under parse_args: a given value is converted with int() and
\* checked against choices; a string default (FASTMATH set) is converted with
\* int() and stored unchecked; the default 1 is stored as it is
ResolveFastmath(fArg, env) ==
    IF fArg.given
    THEN LET v == PyInt(fArg.raw)
         IN  [ok |-> v.ok /\ v.val \in FastmathChoices, val |-> v.val]
    ELSE IF env.FASTMATH.given THEN PyInt(env.FASTMATH.raw)
    ELSE [ok |-> TRUE, val |-> DefaultFastmath]

\* lines 87-94 under parse_args
ResolveSteps(sArg) ==
    IF sArg.given THEN check_steps(sArg.raw) ELSE Returned(DefaultSteps)

\* line 120: parser.parse_args(); any rejected option ends in parser.error,
\* which prints the usage and exits with status 2
ParseArgs ==
    /\ pc = "parse"
    /\ \E sArg \in StepsArgv, dArg \in DeviceArgv, fArg \in FastmathArgv,
          nx \in NxValues, nt \in NtValues, LL \in LLValues, LT \in LTValues,
          sqrts \in SqrtsValues, reg \in Regulators :
         LET st == ResolveSteps(sArg)
             dev == ResolveDevice(dArg, environ)
             fm == ResolveFastmath(fArg, environ)
         IN  IF st.kind = "return" /\ dev.ok /\ fm.ok
             THEN /\ args' = [nx |-> nx, nt |-> nt, LL |-> LL, LT |-> LT,
                              sqrts |-> sqrts, m |-> reg[1], uv |-> reg[2],
                              steps |-> st.value, device |-> dev.val,
                              fastmath |-> fm.val]
                  /\ pc' = "set_target"
                  /\ error' = error
             ELSE /\ args' = args
                  /\ pc' = "exit"
                  /\ error' = [exc |-> "SystemExit", at |-> "parse_args"]
    /\ UNCHANGED <<environ, writes, loaded, opened, lattice, ic, it, step, t,
                   now, out, advances, arg, ret>>

\* line 125 left out
C4_SetTarget_skipped ==
    /\ pc = "set_target"
    /\ pc' = "set_fastmath"
    /\ UNCHANGED <<environ, writes, args, error, loaded, opened, lattice, ic,
                   it, step, t, now, out, advances, arg, ret>>

\* line 125
SetTarget ==
    /\ pc = "set_target"
    /\ environ' = [environ EXCEPT !.MY_NUMBA_TARGET = args.device]
    /\ writes' = [writes EXCEPT !.MY_NUMBA_TARGET = @ + 1]
    /\ pc' = "set_fastmath"
    /\ UNCHANGED <<args, error, loaded, opened, lattice, ic, it, step, t, now,
                   out, advances, arg, ret>>

\* line 127
SetFastmath ==
    /\ pc = "set_fastmath"
    /\ environ' = [environ EXCEPT !.FASTMATH = Opt(PyStr(args.fastmath))]
    /\ writes' = [writes EXCEPT !.FASTMATH = @ + 1]
    /\ pc' = "import"
    /\ UNCHANGED <<args, error, loaded, opened, lattice, ic, it, step, t, now,
                   out, advances, arg, ret>>

\* lines 136-149: the imports of the chosen branch run in order; the first
\* that fails ends the script with ImportError
ImportBackend ==
    /\ pc = "import"
    /\ LET mods == IF args.device = "cython" THEN CyModules ELSE NumbaModules
       IN  \E k \in 0..Len(mods) :
             /\ loaded' = SubSeq(mods, 1, k)
             /\ IF k = Len(mods)
                THEN /\ pc' = IF args.device = "cython" THEN "lattice" ELSE "probe"
                     /\ error' = error
                ELSE /\ pc' = "abort"
                     /\ error' = [exc |-> "ImportError", at |-> mods[k + 1]]
    /\ UNCHANGED <<environ, writes, args, opened, lattice, ic, it, step, t,
                   now, out, advances, arg, ret>>

\* lines 151-157 with the exception caught and not re-raised
C7_OpenCudalib_swallowed ==
    /\ pc = "probe"
    /\ LET i == Len(opened) + 1
       IN  /\ opened' = Append(opened, cuda_libs[i])
           /\ pc' = IF i = Len(cuda_libs) THEN "lattice" ELSE "probe"
           /\ \E ok \in BOOLEAN :
                error' = IF ok THEN error ELSE [exc |-> "OSError", at |-> cuda_libs[i]]
    /\ UNCHANGED <<environ, writes, args, loaded, lattice, ic, it, step, t,
                   now, out, advances, arg, ret>>

\* lines 151-157: one libs.open_cudalib call of the map; whatever it raises
\* is printed about and re-raised (line 157)
OpenCudalib ==
    /\ pc = "probe"
    /\ LET i == Len(opened) + 1
       IN  /\ opened' = Append(opened, cuda_libs[i])
           /\ \E ok \in BOOLEAN :
                IF ok
                THEN /\ pc' = IF i = Len(cuda_libs) THEN "lattice" ELSE "probe"
                     /\ error' = error
                ELSE /\ pc' = "abort"
                     /\ error' = [exc |-> "OSError", at |-> cuda_libs[i]]
    /\ UNCHANGED <<environ, writes, args, loaded, lattice, ic, it, step, t,
                   now, out, advances, arg, ret>>

\* the values lines 199-205 assign
LatticeOf(p) ==
    [aT_fm |-> aT_fm(p), E0 |-> E0(p), aT |-> aT, aL_fm |-> aL_fm(p),
     aL |-> aL(p), a |-> a(p), dt |-> dt(p)]

\* the values lines 208-216 assign; sigma and sigma_c stay unassigned (<<>>)
\* when line 215 raises
InitialConditionsOf(p) ==
    [gamma |-> gamma(p), Qs |-> Qs(p), alphas |-> alphas(p), g |-> g(p),
     mu |-> mu(p), uvt |-> uvt(p), ir |-> ir(p),
     sigma |-> IF p.sqrts = 0 \/ p.LL = 0 THEN <<>> ELSE <<sigma(p)>>,
     sigma_c |-> IF p.sqrts = 0 \/ p.LL = 0 THEN <<>> ELSE <<sigma_c(p)>>]

\* lines 199-205.  Python float division by zero raises ZeroDivisionError:
\* LT / nt (199), hbarc / aT_fm (200), LL / nx (202)
Lattice ==
    /\ pc = "lattice"
    /\ IF args.nt = 0 \/ args.LT = 0 \/ args.nx = 0
       THEN /\ lattice' = lattice
            /\ pc' = "abort"
            /\ error' = [exc |-> "ZeroDivisionError", at |-> "lattice"]
       ELSE /\ lattice' = <<LatticeOf(args)>>
            /\ pc' = "ic"
            /\ error' = error
    /\ UNCHANGED <<environ, writes, args, loaded, opened, ic, it, step, t, now,
                   out, advances, arg, ret>>

\* lines 208-216.  Lines 209-212 are numpy arithmetic and raise nothing;
\* line 215 divides Python floats by 2.0 * gamma and by aL_fm and raises
\* ZeroDivisionError when one of them is zero, after gamma .. ir are assigned
InitialConditions ==
    /\ pc = "ic"
    /\ ic' = <<InitialConditionsOf(args)>>
    /\ IF args.sqrts = 0 \/ args.LL = 0
       THEN /\ pc' = "abort"
            /\ error' = [exc |-> "ZeroDivisionError", at |-> "sigma"]
       ELSE /\ pc' = "loop"
            /\ error' = error
    /\ UNCHANGED <<environ, writes, args, loaded, opened, lattice, it, step, t,
                   now, out, advances, arg, ret>>

\* lines 222-226: t = time.time(), then the first pass of both for loops
\* (max_iters = 20 and steps >= 2, so both bodies are entered)
BeginLoop ==
    /\ pc = "loop"
    /\ t' = now
    /\ now' = now + 1
    /\ it' = 0
    /\ step' = 0
    /\ pc' = "time"
    /\ UNCHANGED <<environ, writes, args, error, loaded, opened, lattice, ic,
                   out, advances, arg, ret>>

\* line 230 reading the clock without assigning t
C10_StepTime_stale ==
    /\ pc = "time"
    /\ t' = t
    /\ now' = now + 1
    /\ pc' = "print_index"
    /\ UNCHANGED <<environ, writes, args, error, loaded, opened, lattice, ic,
                   it, step, out, advances, arg, ret>>

\* line 230
StepTime ==
    /\ pc = "time"
    /\ t' = now
    /\ now' = now + 1
    /\ pc' = "print_index"
    /\ UNCHANGED <<environ, writes, args, error, loaded, opened, lattice, ic,
                   it, step, out, advances, arg, ret>>

\* line 231
StepPrintIndex ==
    /\ pc = "print_index"
    /\ out' = Append(out, <<"index", global_step_index(args.steps, it, step)>>)
    /\ pc' = "print_cycle"
    /\ UNCHANGED <<environ, writes, args, error, loaded, opened, lattice, ic,
                   it, step, t, now, advances, arg, ret>>

\* line 232, then the loop headers of lines 229 and 226: the next step, the
\* next iteration, or the end of the script
StepPrintCycle ==
    /\ pc = "print_cycle"
    /\ out' = Append(out, <<"cycle", now - t>>)
    /\ now' = now + 1
    /\ IF step + 1 < args.steps
       THEN /\ step' = step + 1
            /\ it' = it
            /\ pc' = "time"
       ELSE IF it + 1 < max_iters
       THEN /\ step' = 0
            /\ it' = it + 1
            /\ pc' = "time"
       ELSE /\ step' = step
            /\ it' = it
            /\ pc' = "done"
    /\ UNCHANGED <<environ, writes, args, error, loaded, opened, lattice, ic,
                   t, advances, arg, ret>>

Next ==
    \/ ParseArgs
    \/ SetTarget
    \/ SetFastmath
    \/ ImportBackend
    \/ OpenCudalib
    \/ Lattice
    \/ InitialConditions
    \/ BeginLoop
    \/ StepTime
    \/ StepPrintIndex
    \/ StepPrintCycle

Spec == Init /\ [][Next]_vars

\* ------------------------------------------ check_steps on raw strings alone

InitSteps ==
    /\ pc = "check_steps"
    /\ arg \in Strings(MaxLen)
    /\ ret = NoResult
    /\ environ = [MY_NUMBA_TARGET |-> None, FASTMATH |-> Absent]
    /\ writes = [MY_NUMBA_TARGET |-> 0, FASTMATH |-> 0]
    /\ args = NoArgs
    /\ error = NoError
    /\ loaded = <<>>
    /\ opened = <<>>
    /\ lattice = <<>>
    /\ ic = <<>>
    /\ it = 0
    /\ step = 0
    /\ t = 0
    /\ now = 0
    /\ out = <<>>
    /\ advances = 0

\* lines 18-28, called on one raw string
CallCheckSteps ==
    /\ pc = "check_steps"
    /\ ret' = check_steps(arg)
    /\ pc' = "returned"
    /\ UNCHANGED <<environ, writes, args, error, loaded, opened, lattice, ic,
                   it, step, t, now, out, advances, arg>>

NextSteps == CallCheckSteps

SpecSteps == InitSteps /\ [][NextSteps]_vars

\* ------------------------------------------------- the run loop on its own

\* lines 47-117: the defaults of the options (MY_NUMBA_TARGET, FASTMATH unset)
DefaultArgs ==
    [nx |-> 64, nt |-> 256, LL |-> 6, LT |-> 6, sqrts |-> 200000000,
     m |-> 200, uv |-> 10000, steps |-> DefaultSteps, device |-> "cuda",
     fastmath |-> DefaultFastmath]

\* the steps values check_steps lets through among the numerals 1..MaxSteps
AcceptedSteps ==
    {n \in 1..MaxSteps : check_steps(PyStr(n)).kind = "return"}

\* the script at line 221 after a startup in which nothing failed
InitLoop ==
    /\ pc = "loop"
    /\ \E s \in AcceptedSteps : args = [DefaultArgs EXCEPT !.steps = s]
    /\ environ = [MY_NUMBA_TARGET |-> args.device,
                  FASTMATH |-> Opt(PyStr(args.fastmath))]
    /\ writes = [MY_NUMBA_TARGET |-> 1, FASTMATH |-> 1]
    /\ error = NoError
    /\ loaded = NumbaModules
    /\ opened = cuda_libs
    /\ lattice = <<LatticeOf(args)>>
    /\ ic = <<InitialConditionsOf(args)>>
    /\ it = 0
    /\ step = 0
    /\ t = 0
    /\ now = 0
    /\ out = <<>>
    /\ advances = 0
    /\ arg = <<>>
    /\ ret = NoResult

NextLoop ==
    \/ BeginLoop
    \/ StepTime
    \/ StepPrintIndex
    \/ StepPrintCycle

\* one thread, no blocking call in the loop body: the next statement runs
SpecLoop == InitLoop /\ [][NextLoop]_vars /\ WF_vars(NextLoop)

\* ------------------------------------------------------------------ claims

IsIndexLine(l) == l[1] = "index"

\* the global_step_index values printed so far, in order
IndexLines == SelectSeq(out, IsIndexLine)

InLoop == pc \in {"loop", "time", "print_index", "print_cycle", "done"}

Parsed == pc \notin {"parse", "exit", "check_steps", "returned"}

\* C1, safety half: the indices printed so far are 0, 1, 2, .. in this order,
\* never more than 20 * steps of them, and all 20 * steps once the loop is over
C1_Records ==
    /\ \A i \in 1..Len(IndexLines) : IndexLines[i][2] = i - 1
    /\ Len(IndexLines) <= 20 * args.steps
    /\ pc = "done" => Len(IndexLines) = 20 * args.steps

\* C1: for every accepted steps value s the run loop prints exactly 20 * s
\* progress records whose indices are 0 .. 20*s - 1, each once and in
\* ascending order, and then terminates
C1_RunLoopEmitsAllIndicesThenStops == []C1_Records /\ <>(pc = "done")

C1_Witness ==
    /\ pc = "done"
    /\ args.steps = 4
    /\ Len(IndexLines) = 80
    /\ IndexLines[1][2] = 0
    /\ IndexLines[80][2] = 79

\* C2: check_steps returns the integer exactly when the raw string parses as
\* an even integer >= 2, and otherwise raises ArgumentTypeError (3, 5, 1, 0,
\* -2 and a non-numeral are rejected; 2, 4, 6, 100 are accepted)
C2_CheckStepsAcceptsExactlyEvenGE2 ==
    pc = "returned" =>
        /\ ret.kind \in {"return", "raise"}
        /\ ret.kind = "raise" => ret.exc = "ArgumentTypeError"
        /\ LET v == PyInt(arg)
           IN  ret.kind = "return" <=> (v.ok /\ v.val % 2 = 0 /\ v.val >= 2)
        /\ ret.kind = "return" => ret.value = PyInt(arg).val
        /\ \A n \in (0 - 20)..200 :
             arg = PyStr(n) =>
                IF n % 2 = 0 /\ n >= 2 THEN ret = Returned(n)
                ELSE ret.kind = "raise"
        /\ (\E i \in 1..Len(arg) : arg[i] = "a") => ret.kind = "raise"
        /\ arg \in {<<"3">>, <<"5">>, <<"1">>, <<"0">>, <<"-", "2">>, <<"a">>}
             => ret.kind = "raise"
        /\ arg = <<"2">> => ret = Returned(2)
        /\ arg = <<"4">> => ret = Returned(4)
        /\ arg = <<"6">> => ret = Returned(6)
        /\ arg = <<"1", "0", "0">> => ret = Returned(100)

C2_Witness ==
    /\ pc = "returned"
    /\ arg = <<"1", "0", "0">>
    /\ ret = Returned(100)

\* C3: after a successful parse the resolved device, and the value written
\* back to MY_NUMBA_TARGET, is one of cuda, numba, cython
C3_DeviceAlwaysEnumerated ==
    Parsed =>
        /\ args.device \in Choices
        /\ writes.MY_NUMBA_TARGET > 0 => environ.MY_NUMBA_TARGET \in Choices

\* C4: MY_NUMBA_TARGET and FASTMATH are each written exactly once, with the
\* resolved device and fastmath, before any backend module is imported, and
\* keep that value through the import, the probe, the derivation and the loop
C4_TokensWrittenOnceBeforeImport ==
    /\ pc \in {"parse", "exit", "set_target"} =>
          writes = [MY_NUMBA_TARGET |-> 0, FASTMATH |-> 0]
    /\ pc = "set_fastmath" => writes = [MY_NUMBA_TARGET |-> 1, FASTMATH |-> 0]
    /\ Len(loaded) > 0 => writes = [MY_NUMBA_TARGET |-> 1, FASTMATH |-> 1]
    /\ (Parsed /\ pc \notin {"set_target", "set_fastmath"}) =>
          /\ writes = [MY_NUMBA_TARGET |-> 1, FASTMATH |-> 1]
          /\ environ.FASTMATH.given
          /\ PyInt(environ.FASTMATH.raw) = [ok |-> TRUE, val |-> args.fastmath]
    /\ (Parsed /\ pc # "set_target") => environ.MY_NUMBA_TARGET = args.device

C4_Witness ==
    /\ pc = "done"
    /\ args.device = "numba"
    /\ environ.MY_NUMBA_TARGET = "numba"
    /\ writes = [MY_NUMBA_TARGET |-> 1, FASTMATH |-> 1]

\* what section 3 of the specification requires of the inputs
ValidInputSpec(p) ==
    /\ p.nx >= 2
    /\ p.nt >= 2
    /\ p.LL > 0
    /\ p.LT > 0
    /\ p.sqrts > 0
    /\ p.m > 0
    /\ p.uv > 0
    /\ p.uv > p.m

\* C5: every input set that passes parsing satisfies nx >= 2, nt >= 2,
\* LL, LT, sqrts, m, uv > 0 and uv > m
C5_ParsedInputsAreValid == Parsed => ValidInputSpec(args)

\* C6: the loop is entered only with Qs > 217 and a positive finite coupling
C6_BadCouplingNeverReachesLoop ==
    InLoop =>
        /\ ic[1].Qs > LambdaQCD
        /\ ic[1].alphas = "pos"
        /\ ic[1].g \notin {"nan", "inf"}
        /\ ic[1].mu # "nan"

\* C7: when a cuda library fails to load (device not cython) the script is
\* over at once: nothing derived, nothing printed by the loop, every library
\* tried once at most and in order, the failing one last, only the numba
\* backend's modules imported; and the derivation starts on that branch only
\* after all five loads succeeded
C7_CudaLoadFailureIsFatal ==
    /\ error.exc = "OSError" =>
          /\ pc = "abort"
          /\ ~ENABLED Next
          /\ args.device # "cython"
          /\ lattice = <<>>
          /\ ic = <<>>
          /\ out = <<>>
          /\ opened = SubSeq(cuda_libs, 1, Len(opened))
          /\ error.at = opened[Len(opened)]
          /\ loaded = NumbaModules
    /\ (Parsed /\ args.device # "cython"
           /\ (pc \in {"lattice", "ic"} \/ InLoop \/ lattice # <<>>)) =>
          /\ opened = cuda_libs
          /\ error.exc # "OSError"
    /\ opened = SubSeq(cuda_libs, 1, Len(opened))

C7_Witness ==
    /\ pc = "abort"
    /\ args.device = "numba"
    /\ error = [exc |-> "OSError", at |-> "cufft"]
    /\ opened = <<"cublas", "cusparse", "cufft">>

\* C8: for valid inputs aT = 1, aL = (LL/nx)/(LT/nt), dt = aL/steps and
\* a = [aL, aT, aT]; with LT=6, nt=256, LL=6, nx=64, steps=4: aL = 4, dt = 1
C8_LatticeSpacings ==
    (lattice # <<>> /\ ValidInputSpec(args)) =>
        LET l == lattice[1]
        IN  /\ l.aT = [n |-> 1, d |-> 1]
            /\ l.aL.d > 0
            /\ l.aL.n * (args.nx * args.LT) = l.aL.d * (args.LL * args.nt)
            /\ l.dt.d > 0
            /\ l.dt.n * (args.steps * l.aL.d) = l.dt.d * l.aL.n
            /\ l.a = <<l.aL, l.aT, l.aT>>
            /\ (args.LT = 6 /\ args.nt = 256 /\ args.LL = 6 /\ args.nx = 64
                  /\ args.steps = 4) =>
                 (l.aL = [n |-> 4, d |-> 1] /\ l.dt = [n |-> 1, d |-> 1])

C8_Witness ==
    /\ lattice # <<>>
    /\ ValidInputSpec(args)
    /\ args.LT = 6 /\ args.nt = 256 /\ args.LL = 6 /\ args.nx = 64
    /\ args.steps = 4
    /\ lattice[1].aL = [n |-> 4, d |-> 1]
    /\ lattice[1].dt = [n |-> 1, d |-> 1]

\* gamma = sqrts / 2000 (sqrts in 1/1000 MeV)
GammaIsHalfEnergyInGeV ==
    /\ ic[1].gamma.d > 0
    /\ ic[1].gamma.n * 2000000 = ic[1].gamma.d * args.sqrts
    /\ args.sqrts = 200000000 => ic[1].gamma = [n |-> 100, d |-> 1]

\* C9 as stated: Qs is the fourth root of the energy in GeV, times 1000:
\* sqrts = 1000 * n^4 MeV gives Qs = 1000 * n; gamma = sqrts / 2000
C9_QsIsFourthRoot ==
    (ic # <<>> /\ args.sqrts > 0) =>
        /\ \A n \in 1..4 :
             args.sqrts = 1000000 * n * n * n * n => ic[1].Qs = 1000 * n
        /\ GammaIsHalfEnergyInGeV

\* C9 amended: Qs is the square root of that fourth root (the eighth root),
\* times 1000: sqrts = 1000 * n^8 MeV gives Qs = 1000 * n, sqrts = 200000
\* gives Qs = 1939 (to the MeV); gamma = sqrts / 2000
C9_QsIsEighthRoot ==
    (ic # <<>> /\ args.sqrts > 0) =>
        /\ \A n \in 1..2 :
             args.sqrts = 1000000 * n * n * n * n * n * n * n * n =>
                ic[1].Qs = 1000 * n
        /\ args.sqrts = 200000000 => ic[1].Qs = 1939
        /\ GammaIsHalfEnergyInGeV

C9_Witness ==
    /\ ic # <<>>
    /\ args.sqrts = 256000000
    /\ ic[1].Qs = 2000
    /\ ic[1].gamma = [n |-> 128, d |-> 1]

\* the number of inner steps completed before the current one
CyclesDone == args.steps * it + step

====
